---- MODULE Spec2Model ----
(***************************************************************************)
(* Model of the enumeration-area pipeline of src/ea_processor.py:          *)
(* split_by_boundaries, merge_units, quadtree_split and generate_eas.      *)
(*                                                                         *)
(* Geometry.  The plane is a GridW x GridW raster of square pixels of      *)
(* 1 km x 1 km; every pixel is cut into Sub x Sub subcells.  A geometry is *)
(* a closed point set made of the vertices, edges and faces of the         *)
(* subcell grid.  The element with doubled coordinates (i, j),             *)
(* 0 <= i, j <= D, is a face when i and j are odd, an edge when exactly    *)
(* one is odd and a vertex when both are even; it is encoded as the        *)
(* integer i * K + j.  Areas are integers counted in subcells, i.e. in     *)
(* units of 1 / (Sub * Sub) km2, and the area caps use the same unit.      *)
(*                                                                         *)
(* State.  pc is the position in generate_eas; pop_gdf, boundary_gdf,      *)
(* max_pop and max_area are the loaded inputs; split_units is the result   *)
(* of split_by_boundaries; row_i, merged, current_geom, current_pop and    *)
(* current_area are the locals of merge_units (merged is eas_gdf once the  *)
(* merge is done); ea_i and sparse_areas are the locals of the refinement  *)
(* loop; stack and children are the calls of quadtree_split in progress    *)
(* and the leaves collected so far.  current_run, runs, dropped and        *)
(* refined are history variables: the rows that went into each record,     *)
(* the rows skipped by the except clause, and the fragments made for each  *)
(* refined record.                                                         *)
(***************************************************************************)
EXTENDS Integers, Sequences, FiniteSets, TLC

VARIABLES pc, pop_gdf, boundary_gdf, max_pop, max_area, split_units,
          row_i, merged, current_geom, current_pop, current_area,
          current_run, runs, dropped,
          ea_i, stack, children, refined, sparse_areas

vars == <<pc, pop_gdf, boundary_gdf, max_pop, max_area, split_units,
          row_i, merged, current_geom, current_pop, current_area,
          current_run, runs, dropped,
          ea_i, stack, children, refined, sparse_areas>>

(* --------------------------- size of the model ------------------------ *)
GridW == 2
MaxPopVal == 2
MaxUnits == 3

(* subcells per pixel side: the length unit is 1/Sub km, so that           *)
(* geometry.area / 1e6 (km2) is Area(g) / (Sub * Sub)                      *)
Sub == 4

D == 2 * Sub * GridW
K == D + 1

(* ----------------------------- geometry ------------------------------- *)
Elem(i, j) == i * K + j
EX(e) == e \div K
EY(e) == e % K
IsFace(e) == EX(e) % 2 = 1 /\ EY(e) % 2 = 1

SetMin(S) == CHOOSE x \in S : \A y \in S : x <= y
SetMax(S) == CHOOSE x \in S : \A y \in S : x >= y

(* the closed square of pixel (px, py) *)
PixelGeom(px, py) ==
    { Elem(i, j) : i \in (2 * Sub * px)..(2 * Sub * (px + 1)),
                   j \in (2 * Sub * py)..(2 * Sub * (py + 1)) }

(* the closed union of a set of pixels *)
PixelsGeom(P) == UNION { PixelGeom(p[1], p[2]) : p \in P }

Pixels == (0..(GridW - 1)) \X (0..(GridW - 1))

EmptyGeom == {}

(* geometry.is_empty *)
IsEmpty(g) == g = {}

(* geometry.area, in subcells *)
Area(g) == Cardinality({ e \in g : IsFace(e) })

(* geometry.bounds: <<minx, miny, maxx, maxy>> in doubled coordinates *)
Bounds(g) ==
    LET xs == { EX(e) : e \in g }
        ys == { EY(e) : e \in g }
    IN  << SetMin(xs), SetMin(ys), SetMax(xs), SetMax(ys) >>

(* a.union(b) *)
GeomUnion(a, b) == a \cup b

(* QuadRect with the halving forgotten: half_width = width *)
QuadRectUnhalved(g, k) ==
    LET b == Bounds(g)
        minx == b[1]
        miny == b[2]
        maxx == b[3]
        maxy == b[4]
        half_width == maxx - minx
        half_height == maxy - miny
    IN  CASE k = 1 -> << minx, miny, minx + half_width, miny + half_height >>
          [] k = 2 -> << minx + half_width, miny, maxx, miny + half_height >>
          [] k = 3 -> << minx, miny + half_height, minx + half_width, maxy >>
          [] OTHER -> << minx + half_width, miny + half_height, maxx, maxy >>

(* The k-th of the four quadrants of the bounding box of g, as the         *)
(* rectangle <<x0, y0, x1, y1>> in doubled coordinates                     *)
QuadRect(g, k) ==
    LET b == Bounds(g)
        minx == b[1]
        miny == b[2]
        maxx == b[3]
        maxy == b[4]
        half_width == (maxx - minx) \div 2
        half_height == (maxy - miny) \div 2
    IN  CASE k = 1 -> << minx, miny, minx + half_width, miny + half_height >>
          [] k = 2 -> << minx + half_width, miny, maxx, miny + half_height >>
          [] k = 3 -> << minx, miny + half_height, minx + half_width, maxy >>
          [] OTHER -> << minx + half_width, miny + half_height, maxx, maxy >>

(* quad.centroid of a rectangle, in doubled coordinates *)
Centroid(r) == << (r[1] + r[3]) \div 2, (r[2] + r[4]) \div 2 >>

(* The halvings of the bounding box of g fall on subcell lines and the     *)
(* quadrant centroids on elements of the grid                              *)
HalvesExactly(g) ==
    LET b == Bounds(g)
    IN  (b[3] - b[1]) % 4 = 0 /\ (b[4] - b[2]) % 4 = 0

(* geometry.contains(point): the point lies in the interior of g, i.e.     *)
(* every face that touches it belongs to g                                 *)
Contains(g, p) ==
    LET is == IF p[1] % 2 = 1 THEN { p[1] } ELSE { p[1] - 1, p[1] + 1 }
        js == IF p[2] % 2 = 1 THEN { p[2] } ELSE { p[2] - 1, p[2] + 1 }
    IN  \A i \in is, j \in js :
            /\ i >= 0 /\ i <= D /\ j >= 0 /\ j <= D
            /\ Elem(i, j) \in g

(* quad.intersection(geometry): the points of g inside the closed          *)
(* rectangle r, lower-dimensional pieces included                          *)
Clip(r, g) ==
    { e \in g : /\ r[1] <= EX(e) /\ EX(e) <= r[3]
                /\ r[2] <= EY(e) /\ EY(e) <= r[4] }

(* Within with intersects in the place of within *)
WithinAsIntersects(a, b) == a \cap b # {}

(* a.within(b) *)
Within(a, b) == a # {} /\ a \subseteq b

RECURSIVE SumPop(_)
(* sum(gdf.population) over a sequence of records *)
SumPop(s) == IF s = << >> THEN 0 ELSE s[1].population + SumPop(Tail(s))

SelectWithin(gdf, q) == SelectSeq(gdf, LAMBDA c : Within(c.geometry, q))

(* sum(pop_density_gdf[pop_density_gdf.geometry.within(q)].population) *)
PopWithin(gdf, q) == SumPop(SelectWithin(gdf, q))

(* ------------------------------ inputs -------------------------------- *)
(* the caps offered to max_pop and max_area (max_area in subcells:         *)
(* 10 is 0.625 km2, the others are 2 km2 and 4 km2)                        *)
PopCaps == { MaxPopVal - 1, 2 * MaxPopVal + 1 }
AreaCaps == { 10, 2 * Sub * Sub, 4 * Sub * Sub }

(* every non-empty union of pixels of the raster *)
PixelGeoms == { PixelsGeom(P) : P \in (SUBSET Pixels) \ { {} } }

(* the pixels in row-major order *)
PixelSeq == [ n \in 1..(GridW * GridW) |->
                << (n - 1) % GridW, (n - 1) \div GridW >> ]

(* a population layer with one cell per pixel, each of population p *)
UniformCells(p) ==
    [ n \in 1..(GridW * GridW) |->
        [ geometry |-> PixelGeom(PixelSeq[n][1], PixelSeq[n][2]),
          population |-> p ] ]

(* ------------------------- split_by_boundaries ------------------------ *)
(* The optional boundary layer is held as a sequence of length at most     *)
(* one: << >> is None, << b >> is the GeoDataFrame b, a sequence of        *)
(* polygon geometries.                                                     *)
IsNone(b) == b = << >>

(* the polygonal part of a geometry: the closure of its faces (overlay      *)
(* keeps the geometry type of its input)                                   *)
PolygonPart(g) ==
    UNION { { Elem(EX(f) + di, EY(f) + dj) : di \in { 0 - 1, 0, 1 }, dj \in { 0 - 1, 0, 1 } } :
              f \in { e \in g : IsFace(e) } }

(* the row of a population cell with its area column (lines 53, 56) *)
WithArea(geom, pop) ==
    [ geometry |-> geom, population |-> pop, area_km2 |-> Area(geom) ]

RECURSIVE OverlayCell(_, _)
(* the rows gpd.overlay(how='intersection') gives for one cell: one per     *)
(* boundary feature it overlaps, each with the cell's whole population     *)
OverlayCell(cell, bnd) ==
    IF bnd = << >> THEN << >>
    ELSE LET part == PolygonPart(cell.geometry \cap bnd[1])
             rest == OverlayCell(cell, Tail(bnd))
         IN  IF IsEmpty(part) THEN rest
             ELSE << WithArea(part, cell.population) >> \o rest

RECURSIVE Overlay(_, _)
Overlay(gdf, bnd) ==
    IF gdf = << >> THEN << >>
    ELSE OverlayCell(gdf[1], bnd) \o Overlay(Tail(gdf), bnd)

(* split_by_boundaries without the shortcut for a missing boundary layer *)
SplitAlwaysOverlays(gdf, b) == Overlay(gdf, IF IsNone(b) THEN << >> ELSE b[1])

(* lines 50-57 *)
split_by_boundaries(gdf, b) ==
    IF IsNone(b)
      THEN [ n \in 1..Len(gdf) |-> WithArea(gdf[n].geometry, gdf[n].population) ]
      ELSE Overlay(gdf, b[1])

(* ----------------------------- merge_units --------------------------- *)
(* current_geom = None *)
None == { 0 - 1 }

(* bool(current_geom): None and an empty geometry are both false *)
Truthy(g) == g # None /\ g # {}

(* the test of lines 108-109 *)
Exceeds(pop, area, row) ==
    (pop + row.population > max_pop) \/ (area + row.area_km2 > max_area)

(* the record appended at lines 112 and 130 *)
EARecord(geom, pop, area) ==
    [ geometry |-> geom, population |-> pop, area_km2 |-> area ]

MergeFrame ==
    UNCHANGED << pop_gdf, boundary_gdf, max_pop, max_area, split_units, ea_i, stack,
                 children, refined, sparse_areas >>

(* lines 107-127: one iteration of the loop over the rows.  current_run,    *)
(* runs and dropped only record which rows went into which record and      *)
(* which rows the except clause skipped.                                   *)
MergeRow ==
    /\ pc = "merge" /\ row_i <= Len(split_units)
    /\ LET row == split_units[row_i]
           flush == Exceeds(current_pop, current_area, row) /\ Truthy(current_geom)
           reset == flush
           geom1 == IF reset THEN None ELSE current_geom
           pop1 == IF reset THEN 0 ELSE current_pop
           area1 == IF reset THEN 0 ELSE current_area
           run1 == IF reset THEN << >> ELSE current_run
       IN  /\ merged' = IF flush
                          THEN Append(merged, EARecord(current_geom, current_pop, current_area))
                          ELSE merged
           /\ runs' = IF flush THEN Append(runs, current_run) ELSE runs
           /\ IF geom1 = None
                THEN /\ current_geom' = row.geometry
                     /\ current_pop' = row.population
                     /\ current_area' = row.area_km2
                     /\ current_run' = << row_i >>
                     /\ dropped' = dropped
                ELSE \E union_fails \in BOOLEAN :
                       IF union_fails
                         THEN /\ current_geom' = geom1
                              /\ current_pop' = pop1
                              /\ current_area' = area1
                              /\ current_run' = run1
                              /\ dropped' = dropped \cup { row_i }
                         ELSE /\ current_geom' = GeomUnion(geom1, row.geometry)
                              /\ current_pop' = pop1 + row.population
                              /\ current_area' = area1 + row.area_km2
                              /\ current_run' = Append(run1, row_i)
                              /\ dropped' = dropped
    /\ row_i' = row_i + 1
    /\ pc' = pc
    /\ MergeFrame

(* lines 129-132: the flush after the loop; merged becomes eas_gdf *)
MergeFlush ==
    /\ pc = "merge" /\ row_i > Len(split_units)
    /\ merged' = IF Truthy(current_geom)
                   THEN Append(merged, EARecord(current_geom, current_pop, current_area))
                   ELSE merged
    /\ runs' = IF Truthy(current_geom) THEN Append(runs, current_run) ELSE runs
    /\ pc' = "refine"
    /\ UNCHANGED << row_i, current_geom, current_pop, current_area, current_run, dropped >>
    /\ MergeFrame

(* the geometries offered to the rows of merge_units taken alone: an empty  *)
(* geometry, one pixel and two pixels                                      *)
UnitGeoms == { EmptyGeom, PixelGeom(0, 0), PixelsGeom({ << 1, 0 >>, << 1, 1 >> }) }

(* a row as split_by_boundaries leaves it: area_km2 is the geometry's area  *)
UnitRows ==
    { [ geometry |-> g, population |-> p, area_km2 |-> Area(g) ] :
        g \in UnitGeoms, p \in 0..MaxPopVal }

(* merge_units alone, on every sequence of at most MaxUnits rows *)
InitMerge ==
    /\ pc = "merge"
    /\ pop_gdf = << >>
    /\ boundary_gdf = << >>
    /\ max_pop \in PopCaps
    /\ max_area \in AreaCaps
    /\ split_units \in UNION { [ 1..n -> UnitRows ] : n \in 0..MaxUnits }
    /\ row_i = 1 /\ merged = << >>
    /\ current_geom = None /\ current_pop = 0 /\ current_area = 0
    /\ current_run = << >> /\ runs = << >> /\ dropped = {}
    /\ ea_i = 1 /\ stack = << >> /\ children = << >>
    /\ refined = << >> /\ sparse_areas = << >>

NextMerge == MergeRow \/ MergeFlush

SpecMerge == InitMerge /\ [][NextMerge]_vars

(* --------------------------- quadtree_split --------------------------- *)
(* The recursion is run on an explicit call stack.  A frame holds the      *)
(* geometry of the call and k: 0 on entry, 1..4 the quadrant the loop is   *)
(* at, 5 once the loop is over.  The leaves are appended to children in    *)
(* the order in which the nested children.extend / append calls add them.  *)
Top == stack[Len(stack)]
Pop(s) == SubSeq(s, 1, Len(s) - 1)
SetK(s, k) == [ s EXCEPT ![Len(s)].k = k ]

(* the test of line 66 *)
SmallEnough(g) == Area(g) <= max_area

(* the test of line 92 *)
MustRecurse(quad_pop, clipped_quad) ==
    quad_pop > max_pop \/ Area(clipped_quad) > max_area

QuadFrame ==
    UNCHANGED << pop_gdf, boundary_gdf, max_pop, max_area, split_units, row_i, merged,
                 current_geom, current_pop, current_area, current_run, runs,
                 dropped, ea_i, refined, sparse_areas >>

(* lines 62-67: entry of a call *)
QuadEnter ==
    /\ pc = "quad" /\ stack # << >> /\ Top.k = 0
    /\ IF SmallEnough(Top.geometry)
         THEN /\ children' = Append(children, Top.geometry)
              /\ stack' = Pop(stack)
         ELSE /\ children' = children
              /\ stack' = SetK(stack, 1)
    /\ pc' = pc
    /\ QuadFrame

(* lines 81-95: one iteration of the loop over the quadrants *)
QuadVisit ==
    /\ pc = "quad" /\ stack # << >> /\ Top.k \in 1..4
    /\ LET geometry == Top.geometry
           quad == QuadRect(geometry, Top.k)
           clipped_quad == Clip(quad, geometry)
           quad_pop == PopWithin(pop_gdf, clipped_quad)
           next == SetK(stack, Top.k + 1)
       IN  IF ~ Contains(geometry, Centroid(quad)) \/ IsEmpty(clipped_quad)
             THEN /\ stack' = next
                  /\ children' = children
             ELSE IF MustRecurse(quad_pop, clipped_quad)
                    THEN /\ stack' = Append(next, [ geometry |-> clipped_quad, k |-> 0 ])
                         /\ children' = children
                    ELSE /\ stack' = next
                         /\ children' = Append(children, clipped_quad)
    /\ pc' = pc
    /\ QuadFrame

(* line 97: return children *)
QuadReturn ==
    /\ pc = "quad" /\ stack # << >> /\ Top.k = 5
    /\ stack' = Pop(stack)
    /\ children' = children
    /\ pc' = pc
    /\ QuadFrame

(* quadtree_split alone, on every geometry, caps and population layer *)
InitQuad ==
    /\ pc = "quad"
    /\ \E p \in 1..MaxPopVal : pop_gdf = UniformCells(p)
    /\ boundary_gdf = << >>
    /\ max_pop \in PopCaps
    /\ max_area \in AreaCaps
    /\ \E g \in PixelGeoms : stack = << [ geometry |-> g, k |-> 0 ] >>
    /\ children = << >>
    /\ split_units = << >> /\ row_i = 1 /\ merged = << >>
    /\ current_geom = None /\ current_pop = 0 /\ current_area = 0
    /\ current_run = << >> /\ runs = << >> /\ dropped = {}
    /\ ea_i = 1 /\ refined = << >> /\ sparse_areas = << >>

NextQuad == QuadEnter \/ QuadVisit \/ QuadReturn

SpecQuad == InitQuad /\ [][NextQuad]_vars

(* validity of the grid: whenever a bounding box is quartered, the cuts    *)
(* fall on subcell lines, so that Clip and Centroid are exact              *)
QuadExact ==
    (pc = "quad" /\ stack # << >> /\ Top.k \in 1..4) => HalvesExactly(Top.geometry)

(* ----------------------------- generate_eas --------------------------- *)
(* The population cells rasterize_population extracts (lines 38-45) from   *)
(* two families of rasters: rasters whose rows are constant, and rasters   *)
(* with a single populated 4-connected region.  A cell is a maximal        *)
(* connected region of one positive value.                                 *)
Rows == 0..(GridW - 1)

RowBand(r1, r2) == { p \in Pixels : p[2] >= r1 /\ p[2] <= r2 }

IsStart(v, r) == v[r] > 0 /\ (r = 0 \/ v[r - 1] # v[r])

RunEnd(v, r) == SetMax({ e \in r..(GridW - 1) : \A y \in r..e : v[y] = v[r] })

RECURSIVE Ascending(_)
Ascending(S) ==
    IF S = {} THEN << >>
    ELSE << SetMin(S) >> \o Ascending(S \ { SetMin(S) })

BandCells(v) ==
    LET ss == Ascending({ r \in Rows : IsStart(v, r) })
    IN  [ n \in 1..Len(ss) |->
            [ geometry |-> PixelsGeom(RowBand(ss[n], RunEnd(v, ss[n]))),
              population |-> v[ss[n]] ] ]

Adjacent(p, q) ==
    \/ (p[1] = q[1] /\ (p[2] = q[2] + 1 \/ q[2] = p[2] + 1))
    \/ (p[2] = q[2] /\ (p[1] = q[1] + 1 \/ q[1] = p[1] + 1))

RECURSIVE Flood(_, _)
Flood(S, F) ==
    LET N == { p \in S \ F : \E q \in F : Adjacent(p, q) }
    IN  IF N = {} THEN F ELSE Flood(S, F \cup N)

Connected(S) == S # {} /\ Flood(S, { CHOOSE p \in S : TRUE }) = S

RegionCells(S, p) == << [ geometry |-> PixelsGeom(S), population |-> p ] >>

PopLayers ==
    { BandCells(v) : v \in { w \in [ Rows -> 0..MaxPopVal ] : \E r \in Rows : w[r] > 0 } }
      \cup { RegionCells(S, p) : S \in { T \in SUBSET Pixels : Connected(T) },
                                 p \in 1..MaxPopVal }

(* load_boundaries (lines 10-28): None, or one layer with one polygon,     *)
(* the left column of the raster                                           *)
BoundaryLayers == { << >>, << << PixelsGeom({ p \in Pixels : p[1] = 0 }) >> >> }

(* Sparse with the factor 0.3 forgotten *)
SparseWithoutFactor(row) ==
    row.population < max_pop \/ row.area_km2 < max_area

(* the test of line 157: population < max_pop * 0.3 or area < max_area * 0.3 *)
Sparse(row) ==
    10 * row.population < 3 * max_pop \/ 10 * row.area_km2 < 3 * max_area

(* the records of lines 159-161 for the leaves of one call *)
FragmentRecords(quads) ==
    [ n \in 1..Len(quads) |->
        [ geometry |-> quads[n],
          population |-> PopWithin(pop_gdf, quads[n]),
          area_km2 |-> Area(quads[n]) ] ]

(* line 163: a non-empty list of fragments sends generate_eas to line 165 *)
ReachesConcat(frags) == frags # << >>

(* state after the inputs are loaded (lines 139-146) *)
Init ==
    /\ pc = "split"
    /\ pop_gdf \in PopLayers
    /\ boundary_gdf \in BoundaryLayers
    /\ max_pop \in PopCaps
    /\ max_area \in AreaCaps
    /\ split_units = << >>
    /\ row_i = 1 /\ merged = << >>
    /\ current_geom = None /\ current_pop = 0 /\ current_area = 0
    /\ current_run = << >> /\ runs = << >> /\ dropped = {}
    /\ ea_i = 1 /\ stack = << >> /\ children = << >>
    /\ refined = << >> /\ sparse_areas = << >>

(* line 149 *)
Split ==
    /\ pc = "split"
    /\ split_units' = split_by_boundaries(pop_gdf, boundary_gdf)
    /\ pc' = "merge"
    /\ UNCHANGED << pop_gdf, boundary_gdf, max_pop, max_area, row_i, merged,
                    current_geom, current_pop, current_area, current_run, runs,
                    dropped, ea_i, stack, children, refined, sparse_areas >>

(* lines 156-158: the next row of eas_gdf; a sparse row calls quadtree_split *)
RefineNext ==
    /\ pc = "refine"
    /\ IF ea_i > Len(merged)
         THEN /\ pc' = "concat"
              /\ UNCHANGED << ea_i, stack, children >>
         ELSE IF Sparse(merged[ea_i])
                THEN /\ pc' = "quad"
                     /\ stack' = << [ geometry |-> merged[ea_i].geometry, k |-> 0 ] >>
                     /\ children' = << >>
                     /\ ea_i' = ea_i
                ELSE /\ pc' = "refine"
                     /\ ea_i' = ea_i + 1
                     /\ UNCHANGED << stack, children >>
    /\ UNCHANGED << pop_gdf, boundary_gdf, max_pop, max_area, split_units, row_i,
                    merged, current_geom, current_pop, current_area, current_run,
                    runs, dropped, refined, sparse_areas >>

(* lines 159-161: the call has returned; its leaves become records.        *)
(* refined records which row of eas_gdf each call was made for.            *)
RefineCollect ==
    /\ pc = "quad" /\ stack = << >> /\ ea_i <= Len(merged)
    /\ sparse_areas' = sparse_areas \o FragmentRecords(children)
    /\ refined' = Append(refined, [ ea |-> ea_i, fragments |-> FragmentRecords(children) ])
    /\ ea_i' = ea_i + 1
    /\ pc' = "refine"
    /\ UNCHANGED << pop_gdf, boundary_gdf, max_pop, max_area, split_units, row_i,
                    merged, current_geom, current_pop, current_area, current_run,
                    runs, dropped, stack, children >>

(* lines 163-167: with fragments, line 165 evaluates pd.concat, and pd is   *)
(* not a name of the module (lines 1-7): NameError; without, eas_gdf,      *)
(* which is merged, is returned                                            *)
Concat ==
    /\ pc = "concat"
    /\ pc' = IF ReachesConcat(sparse_areas) THEN "raised" ELSE "returned"
    /\ UNCHANGED << pop_gdf, boundary_gdf, max_pop, max_area, split_units, row_i,
                    merged, current_geom, current_pop, current_area, current_run,
                    runs, dropped, ea_i, stack, children, refined, sparse_areas >>

Next ==
    \/ Split
    \/ MergeRow
    \/ MergeFlush
    \/ RefineNext
    \/ QuadEnter
    \/ QuadVisit
    \/ QuadReturn
    \/ RefineCollect
    \/ Concat

Spec == Init /\ [][Next]_vars

(* ----------------------------- properties ----------------------------- *)
MergeDone == pc = "refine"

RECURSIVE SumOver(_, _, _)
(* the sum of field f (1: population, 2: area_km2) of the rows idx of units *)
SumOver(units, idx, f) ==
    IF idx = << >> THEN 0
    ELSE (IF f = 1 THEN units[idx[1]].population ELSE units[idx[1]].area_km2)
           + SumOver(units, Tail(idx), f)

RECURSIVE Flatten(_)
Flatten(ss) == IF ss = << >> THEN << >> ELSE ss[1] \o Flatten(Tail(ss))

(* row i alone is over a cap *)
OversizeUnit(i) ==
    split_units[i].population > max_pop \/ split_units[i].area_km2 > max_area

(* record n of merged is a single unit that was over a cap by itself *)
OversizeEA(n) == Len(runs[n]) = 1 /\ OversizeUnit(runs[n][1])

(* C1: every record merge_units emits that is not an oversize singleton has  *)
(* population <= max_pop and area_km2 <= max_area, whatever the geometries  *)
(* of the units                                                            *)
C1_NonOversizeWithinCaps ==
    \A n \in 1..Len(merged) :
        ~ OversizeEA(n) =>
            merged[n].population <= max_pop /\ merged[n].area_km2 <= max_area

(* C2: once merge_units is done, every unit over a cap by itself is a        *)
(* record of its own with the unit's population and area and oversize =    *)
(* TRUE, and every record whose units were all within the caps has         *)
(* oversize = FALSE                                                        *)
C2_OversizeSingletonFlagged ==
    MergeDone =>
        /\ \A i \in 1..Len(split_units) :
               OversizeUnit(i) =>
                   \E n \in 1..Len(merged) :
                       /\ runs[n] = << i >>
                       /\ merged[n].population = split_units[i].population
                       /\ merged[n].area_km2 = split_units[i].area_km2
                       /\ "oversize" \in DOMAIN merged[n]
                       /\ merged[n].oversize = TRUE
        /\ \A n \in 1..Len(merged) :
               (\A k \in 1..Len(runs[n]) : ~ OversizeUnit(runs[n][k])) =>
                   /\ "oversize" \in DOMAIN merged[n]
                   /\ merged[n].oversize = FALSE

(* generate_eas has ended, by a return or by an exception *)
Ended == pc \in { "returned", "raised" }

(* the collection of line 165: eas_gdf followed by the fragments; when      *)
(* generate_eas returns there are no fragments and this is eas_gdf         *)
FinalEAs == merged \o sparse_areas

(* C3: with no boundary layer and no failed union, generate_eas returns a   *)
(* collection whose populations sum to the sum of the populations of the   *)
(* extracted cells                                                         *)
C3_MassConserved ==
    (Ended /\ IsNone(boundary_gdf) /\ dropped = {}) =>
        /\ pc = "returned"
        /\ SumPop(FinalEAs) = SumPop(pop_gdf)

QuadDone == pc = "quad" /\ stack = << >>

(* the area of the bounding box of g, in doubled coordinates *)
BoxArea(g) ==
    LET b == Bounds(g) IN (b[3] - b[1]) * (b[4] - b[2])

(* an upper bound on the steps a frame still needs: a call on a box of area  *)
(* B needs its entry, four visits, its return and at most four calls on    *)
(* boxes of area B / 4, which 8 * B - 2 bounds                             *)
FrameSteps(f) ==
    LET B == BoxArea(f.geometry)
    IN  IF f.k = 0 THEN 8 * B - 2
        ELSE (5 - f.k) * (2 * B - 1) + 1

RECURSIVE StepsLeft(_)
StepsLeft(s) == IF s = << >> THEN 0 ELSE FrameSteps(s[1]) + StepsLeft(Tail(s))

(* the guards of QuadEnter, QuadVisit and QuadReturn: one of them is open *)
QuadCanStep == pc = "quad" /\ stack # << >> /\ Top.k \in 0..5

(* C4: every call of quadtree_split with max_area > 0 ends: each step        *)
(* lowers a bound on the steps that are left, which is never negative, and *)
(* a call that has not returned can take a step; and every leaf it         *)
(* returns has area <= max_area                                            *)
C4_TerminatesWithSmallLeaves ==
    /\ [][StepsLeft(stack') < StepsLeft(stack)]_vars
    /\ [](StepsLeft(stack) >= 0)
    /\ [](QuadDone \/ QuadCanStep)
    /\ [](\A n \in 1..Len(children) : Area(children[n]) <= max_area)

(* a call that ended after subdividing twice: more than four leaves *)
C4_Witness == QuadDone /\ max_area > 0 /\ Len(children) > 4

Faces(g) == { e \in g : IsFace(e) }

(* C5: the fragments made from a refined record have populations that sum   *)
(* to at most the record's population, lie inside the record's geometry    *)
(* and do not overlap one another                                          *)
C5_RefinementInventsNothing ==
    \A m \in 1..Len(refined) :
        LET ea == merged[refined[m].ea]
            fr == refined[m].fragments
        IN  /\ SumPop(fr) <= ea.population
            /\ \A a \in 1..Len(fr) : fr[a].geometry \subseteq ea.geometry
            /\ \A a, b \in 1..Len(fr) :
                   a # b => Faces(fr[a].geometry) \cap Faces(fr[b].geometry) = {}

(* a populated record was subdivided into several fragments *)
C5_Witness ==
    \E m \in 1..Len(refined) :
        /\ Len(refined[m].fragments) >= 2
        /\ merged[refined[m].ea].population > 0

(* C6: generate_eas never raises once the inputs are loaded *)
C6_NeverRaises == pc # "raised"

(* C7: with boundary_gdf None, split_by_boundaries returns the cells in the  *)
(* same number and order, geometry and population unchanged, plus only the *)
(* area column computed from the geometry                                  *)
C7_NoBoundaryPassthrough ==
    (pc # "split" /\ IsNone(boundary_gdf)) =>
        /\ Len(split_units) = Len(pop_gdf)
        /\ \A n \in 1..Len(pop_gdf) :
               /\ split_units[n].geometry = pop_gdf[n].geometry
               /\ split_units[n].population = pop_gdf[n].population
               /\ DOMAIN split_units[n] = { "geometry", "population", "area_km2" }
               /\ split_units[n].area_km2 = Area(pop_gdf[n].geometry)

C7_Witness == pc # "split" /\ IsNone(boundary_gdf) /\ Len(split_units) >= 2

(* C8: with no failed union, merge_units cuts the rows into consecutive     *)
(* runs, one record per run in input order, each record carrying the sums  *)
(* of its run; a run ends before a row only when adding the row would      *)
(* exceed a cap; rows whose totals fit the caps give exactly one record    *)
C8_GreedyInOrderRuns ==
    (MergeDone /\ dropped = {}) =>
        /\ Len(merged) = Len(runs)
        /\ Flatten(runs) = [ i \in 1..Len(split_units) |-> i ]
        /\ \A n \in 1..Len(merged) :
               /\ runs[n] # << >>
               /\ merged[n].population = SumOver(split_units, runs[n], 1)
               /\ merged[n].area_km2 = SumOver(split_units, runs[n], 2)
        /\ \A n \in 2..Len(runs) :
               Exceeds(merged[n - 1].population, merged[n - 1].area_km2,
                       split_units[runs[n][1]])
        /\ ( /\ split_units # << >>
             /\ SumPop(split_units) <= max_pop
             /\ SumOver(split_units, [ i \in 1..Len(split_units) |-> i ], 2) <= max_area )
             => /\ Len(merged) = 1
                /\ merged[1].population = SumPop(split_units)

(* the test of line 157, written out *)
IsSparse(ea) ==
    10 * ea.population < 3 * max_pop \/ 10 * ea.area_km2 < 3 * max_area

(* C9, as stated: only sparse records are refined, and no record over a cap  *)
(* (population or area) is subdivided into more than one fragment          *)
C9_NeverSplitsOverCap ==
    \A m \in 1..Len(refined) :
        LET ea == merged[refined[m].ea]
        IN  /\ IsSparse(ea)
            /\ (ea.population > max_pop \/ ea.area_km2 > max_area)
                   => Len(refined[m].fragments) <= 1

(* C9, amended: only sparse records are refined and every sparse record is;  *)
(* no record over the population cap is subdivided into more than one      *)
(* fragment; a record over the area cap is refined when its population is  *)
(* below 0.3 * max_pop, and its fragments are then within max_area         *)
C9_RefinesSparseOnly ==
    /\ \A m \in 1..Len(refined) :
           LET ea == merged[refined[m].ea]
               fr == refined[m].fragments
           IN  /\ IsSparse(ea)
               /\ ea.population > max_pop => Len(fr) <= 1
               /\ ea.area_km2 > max_area =>
                      /\ 10 * ea.population < 3 * max_pop
                      /\ \A a \in 1..Len(fr) : fr[a].area_km2 <= max_area
    /\ (pc \in { "refine", "concat", "returned", "raised" }) =>
           { refined[m].ea : m \in 1..Len(refined) }
               = { n \in 1..Len(merged) : n < ea_i /\ IsSparse(merged[n]) }

(* a record over the population cap was refined and left whole *)
C9_Witness ==
    \E m \in 1..Len(refined) :
        /\ merged[refined[m].ea].population > max_pop
        /\ Len(refined[m].fragments) = 1

(* C10: once a geometry has been subdivided, no leaf holds cells whose       *)
(* populations sum to more than max_pop                                    *)
C10_LeavesWithinMaxPop ==
    (pc = "quad" /\ stack # << >> /\ stack[1].k >= 1) =>
        \A n \in 1..Len(children) : PopWithin(pop_gdf, children[n]) <= max_pop

====
